---------------------------- MODULE Spec2Model ----------------------------
(***************************************************************************)
(* A model of src/server/events.ts: the event index, the event cache, the  *)
(* center directory, the validation/mutation pipeline and the query        *)
(* engine.                                                                 *)
(*                                                                         *)
(* Representation.  A JavaScript object is a function from its own         *)
(* property names to their values; a property that is absent (or was       *)
(* deleted) is not in the DOMAIN.  Free text (title, address, ...) is a    *)
(* TLA+ string, so Len is the real length.  Dates, times and the numeric   *)
(* query parameters are tuples of one-character strings, so that the       *)
(* regular expressions, the string order and parseInt are computed on      *)
(* their characters.  JSON text is represented by the value it denotes     *)
(* (TLA+ values are immutable, so a stored text is a snapshot).            *)
(***************************************************************************)
EXTENDS Integers, Sequences, FiniteSets, Bags, TLC

VARIABLES
    index,          \* let index: EventIndex                    (line 55)
    eventsCache,    \* let eventsCache: SMap<string>            (line 57)
    hasAllCenters,  \* let hasAllCenters                        (line 59)
    centersRef,     \* let _centers: 0 = undefined, else a map  (line 60)
    centerMaps,     \* every SMap<Center> object ever allocated for _centers
    heap,           \* the Center objects held by those maps and by requests
    evStore,        \* external store: current/<id>.json documents
    ctrStore,       \* external store: centers/<id>.json documents
    indexFile,      \* external store: current/index.json (<<>> = no file)
    procs,          \* the requests in flight (a bag of request records)
    last,           \* the request that completed in the last step (else idle)
    lastSave,       \* history: the save that has just completed (<<>> if none)
    nReq,           \* requests started so far
    nPull,          \* pull notifications delivered so far
    issued,         \* history: ids given to successful creates, in order
    refused,        \* history: ids provisionally given to creates that failed validation
    fnIn,           \* argument of a pure function under test
    fnOut           \* its result (<<>> before the call)

vars == << index, eventsCache, hasAllCenters, centersRef, centerMaps, heap,
           evStore, ctrStore, indexFile, procs, last, lastSave, nReq,
           nPull, issued, refused, fnIn, fnOut >>

----------------------------------------------------------------------------
(* JavaScript objects *)

Has(o, k) == k \in DOMAIN o

Put(o, k, v) == [x \in (DOMAIN o) \cup {k} |-> IF x = k THEN v ELSE o[x]]

Del(o, k) == [x \in (DOMAIN o) \ {k} |-> o[x]]

\* o[k] = src[k2], where an undefined value leaves the property absent
Copy(o, k, src, k2) == IF Has(src, k2) THEN Put(o, k, src[k2]) ELSE Del(o, k)

\* the keys whose values are character tuples (dates and times)
CharKeys == {"startDate", "endDate", "startTime", "start", "stop", "skip", "count"}

\* JavaScript truthiness of o[k] for a string-valued property
Truthy(o, k) == Has(o, k) /\ o[k] # (IF k \in CharKeys THEN <<>> ELSE "")

\* loose equality a[k] == b[k2] of two string properties (undefined == undefined)
SameProp(a, k, b, k2) ==
    IF Has(a, k) /\ Has(b, k2) THEN a[k] = b[k2]
    ELSE ~Has(a, k) /\ ~Has(b, k2)

----------------------------------------------------------------------------
(* Characters *)

Digits == {"0", "1", "2", "3", "4", "5", "6", "7", "8", "9"}

DigitVal(c) ==
    CASE c = "0" -> 0 [] c = "1" -> 1 [] c = "2" -> 2 [] c = "3" -> 3
      [] c = "4" -> 4 [] c = "5" -> 5 [] c = "6" -> 6 [] c = "7" -> 7
      [] c = "8" -> 8 [] c = "9" -> 9

\* UTF-16 code unit of the characters the model uses
CharCode(c) ==
    IF c \in Digits THEN 48 + DigitVal(c)
    ELSE CASE c = "-" -> 45 [] c = ":" -> 58 [] c = "x" -> 120 [] c = "p" -> 112
           [] c = "m" -> 109 [] c = "*" -> 42 [] OTHER -> 63

RECURSIVE StrLess(_, _)
\* a < b on strings: lexicographic on code units
StrLess(a, b) ==
    IF b = <<>> THEN FALSE
    ELSE IF a = <<>> THEN TRUE
    ELSE IF CharCode(Head(a)) # CharCode(Head(b))
         THEN CharCode(Head(a)) < CharCode(Head(b))
         ELSE StrLess(Tail(a), Tail(b))

Dbl(s) == s \o s

X8 == "xxxxxxxx"
X64 == Dbl(Dbl(Dbl(X8)))
X128 == Dbl(X64)
X1024 == Dbl(Dbl(Dbl(X128)))
\* a text of 201 characters and one of 4001
Long201 == X128 \o X64 \o X8 \o "x"
Long4001 == Dbl(X1024) \o X1024 \o Dbl(Dbl(X128)) \o Dbl(X128) \o X128 \o Dbl(Dbl(X8)) \o "x"

----------------------------------------------------------------------------
(* Field Validator *)

\* /^2\d\d\d-\d\d-\d\d$/
MatchesDate(d) ==
    /\ Len(d) = 10
    /\ d[1] = "2"
    /\ \A i \in {2, 3, 4, 6, 7, 9, 10} : d[i] \in Digits
    /\ d[5] = "-" /\ d[8] = "-"

\* /^\d\d:\d\d$/
MatchesTime(d) ==
    /\ Len(d) = 5
    /\ \A i \in {1, 2, 4, 5} : d[i] \in Digits
    /\ d[3] = ":"

validDate(o, k) == ~Has(o, k) \/ o[k] = <<>> \/ MatchesDate(o[k])

validTime(o, k) == ~Has(o, k) \/ o[k] = <<>> \/ MatchesTime(o[k])

TitleLimit == 200
AddressLimit == 200
NameLimit == 200
DescriptionLimit == 4000

\* (o[k] || "").length
LenOr(o, k) == IF Has(o, k) THEN Len(o[k]) ELSE 0

EventKeys == << "center", "startDate", "endDate", "title", "description",
                "startTime", "name", "address" >>

RECURSIVE CopyKeys(_, _, _)
\* for (let k of keys) if (delta.hasOwnProperty(k)) curr[k] = delta[k]
CopyKeys(curr, delta, keys) ==
    IF keys = <<>> THEN curr
    ELSE LET k == Head(keys)
         IN  CopyKeys(IF Has(delta, k) THEN Put(curr, k, delta[k]) ELSE curr,
                      delta, Tail(keys))

\* a validator without the check of the center
ChangeErrorAnyCenter(curr, delta) ==
    IF ~validDate(delta, "startDate") THEN "invalid start date"
    ELSE IF ~validDate(delta, "endDate") THEN "invalid end date"
    ELSE IF ~validTime(delta, "startTime") THEN "invalid start time"
    ELSE IF LenOr(delta, "title") > TitleLimit THEN "title too long"
    ELSE IF LenOr(delta, "address") > AddressLimit THEN "address too long"
    ELSE IF LenOr(delta, "name") > NameLimit THEN "name too long"
    ELSE IF LenOr(delta, "description") > DescriptionLimit THEN "description too long"
    ELSE ""

\* the first failing check of applyChanges, "" when all pass
ChangeError(curr, delta) ==
    IF Truthy(curr, "center") /\ ~SameProp(delta, "center", curr, "center")
        THEN "cannot change event center"
    ELSE IF ~validDate(delta, "startDate") THEN "invalid start date"
    ELSE IF ~validDate(delta, "endDate") THEN "invalid end date"
    ELSE IF ~validTime(delta, "startTime") THEN "invalid start time"
    ELSE IF LenOr(delta, "title") > TitleLimit THEN "title too long"
    ELSE IF LenOr(delta, "address") > AddressLimit THEN "address too long"
    ELSE IF LenOr(delta, "name") > NameLimit THEN "name too long"
    ELSE IF LenOr(delta, "description") > DescriptionLimit THEN "description too long"
    ELSE ""

\* a validator that copies before it has checked everything
applyChangesEager(curr, delta) ==
    [err |-> ChangeError(curr, delta), curr |-> CopyKeys(curr, delta, EventKeys)]

\* applyChanges(curr, delta): the error string and curr as it is left
applyChanges(curr, delta) ==
    LET err == ChangeError(curr, delta)
    IN  [err |-> err,
         curr |-> IF err = "" THEN CopyKeys(curr, delta, EventKeys) ELSE curr]

CenterLimit == 200
CenterLongLimit == 4000

CenterKeys == << <<"program", CenterLongLimit>>, <<"about", CenterLongLimit>>,
                 <<"name", CenterLimit>>, <<"address", CenterLimit>> >>

RECURSIVE CenterLoop(_, _, _)
\* the loop of applyCenterChanges: each field is checked and then assigned
\* before the next one is looked at
CenterLoop(curr, delta, keys) ==
    IF keys = <<>> THEN [err |-> "", curr |-> curr]
    ELSE LET k == Head(keys)[1]
             limit == Head(keys)[2]
         IN  IF Has(delta, k)
             THEN IF Len(delta[k]) > limit
                  THEN [err |-> k \o " too long", curr |-> curr]
                  ELSE CenterLoop(Put(curr, k, delta[k]), delta, Tail(keys))
             ELSE CenterLoop(curr, delta, Tail(keys))

applyCenterChanges(curr, delta) == CenterLoop(curr, delta, CenterKeys)

----------------------------------------------------------------------------
(* The world: the module-level variables of events.ts, the external store  *)
(* and the requests in flight, gathered in one record so that the code of  *)
(* a handler can be followed from one await to the next.                   *)

\* the world as the request r sees it: r is the only entry of procs (at
\* place 1), the code of a handler never looking at another request
World(r) ==
    [index |-> index, cache |-> eventsCache, hasAll |-> hasAllCenters,
     cur |-> centersRef, maps |-> centerMaps, heap |-> heap,
     evStore |-> evStore, ctrStore |-> ctrStore, indexFile |-> indexFile,
     procs |-> <<r>>, issued |-> issued, refused |-> refused, ret |-> <<>>]

IdleProc ==
    [op |-> "idle", pc |-> "idle", arg |-> <<>>, stack |-> <<>>, L |-> <<>>,
     status |-> 0, resp |-> <<>>, touched |-> {}, seen |-> <<>>]

\* a local variable of the request in slot p
Loc(W, p, k) == W.procs[p].L[k]

SetL(W, p, k, v) == [W EXCEPT !.procs[p].L = Put(@, k, v)]

\* the request is suspended on the I/O named io; label names the code after
\* the await
Await(W, p, io, label) ==
    [W EXCEPT !.procs[p].pc = io, !.procs[p].stack = <<label>> \o @]

Push(W, p, label) == [W EXCEPT !.procs[p].stack = <<label>> \o @]

\* the response is sent (res.status(..).end / res.json)
Done(W, p, status, resp) ==
    [W EXCEPT !.procs[p].pc = "done", !.procs[p].stack = <<>>,
              !.procs[p].L = <<>>, !.procs[p].status = status,
              !.procs[p].resp = resp]

\* an exception leaves the handler: the request ends without a response body
Fail(W, p) == Done(W, p, 500, <<>>)

\* an async function returns val: its promise is resolved, and the code that
\* awaited it runs next
Return(W, p, val) == [W EXCEPT !.ret = <<val>>]

----------------------------------------------------------------------------
(* Center Directory *)

\* tools.lookup(centers, id): the object id, 0 for undefined
lookup(m, id) == IF id \in DOMAIN m THEN m[id] ELSE 0

\* cachedCenters(): the first call creates the map (and registers the
\* onUpdate handler, which is registered exactly when centersRef # 0)
cachedCenters(W) ==
    IF W.cur = 0
    THEN [W EXCEPT !.maps = Append(@, <<>>), !.cur = Len(W.maps) + 1]
    ELSE W

\* a handler that replaces the map and leaves the flag
onUpdateKeepsFlag(W, isPull) ==
    IF isPull
    THEN [W EXCEPT !.maps = Append(@, <<>>), !.cur = Len(W.maps) + 1]
    ELSE W

\* the handler given to gitfs.events.onUpdate (lines 85-90)
onUpdate(W, isPull) ==
    IF isPull
    THEN [W EXCEPT !.maps = Append(@, <<>>), !.cur = Len(W.maps) + 1,
                   !.hasAll = FALSE]
    ELSE W

\* parseCenterAsync(str): geocodes when the document has no fullcity
parseCenterAsync(W, p, str, ret) ==
    LET W0 == Push(W, p, ret)
    IN  IF ~Truthy(str, "fullcity")
        THEN Await(SetL(W0, p, "parsed", str), p, "io_geocode", "parse_geo")
        ELSE Return(W0, p, str)

\* c.fullcity = (await gmaps.parseAddressAsync(c.address)).fullcity
parse_geo(W, p, fullcity) ==
    Return(W, p, Put(Loc(W, p, "parsed"), "fullcity", fullcity))

\* a lookup that does not look at hasAllCenters
getCenterAsyncNoFlag(W, p, isStr, id, ret) ==
    LET W0 == Push(W, p, ret)
        W1 == cachedCenters(W0)
        r  == lookup(W1.maps[W1.cur], id)
    IN  IF ~isStr THEN Return(W0, p, 0)
        ELSE IF r # 0 THEN Return(W1, p, r)
        ELSE Await(SetL(SetL(SetL(W1, p, "gcId", id), p, "gcMap", W1.cur),
                        p, "path", id),
                   p, "io_centerText", "gc_text")

\* getCenterAsync(id); isStr is typeof id == "string"
getCenterAsync(W, p, isStr, id, ret) ==
    LET W0 == Push(W, p, ret)
        W1 == cachedCenters(W0)
        r  == lookup(W1.maps[W1.cur], id)
    IN  IF ~isStr THEN Return(W0, p, 0)
        ELSE IF r # 0 \/ W1.hasAll THEN Return(W1, p, r)
        ELSE Await(SetL(SetL(SetL(W1, p, "gcId", id), p, "gcMap", W1.cur),
                        p, "path", id),
                   p, "io_centerText", "gc_text")

gc_text(W, p, str) == parseCenterAsync(W, p, str, "gc_parsed")

\* centers[id] = <the parsed center>, in the map captured before the awaits
gc_parsed(W, p, c) ==
    LET obj == Len(W.heap) + 1
    IN  Return([W EXCEPT !.heap = Append(@, c),
                         !.maps[Loc(W, p, "gcMap")] =
                             Put(@, Loc(W, p, "gcId"), obj)],
               p, obj)

----------------------------------------------------------------------------
(* Index Manager and Event Cache *)

IndexKeys == {"id", "startDate", "endDate", "title", "center"}

\* forIndex(js): a property whose value is undefined is dropped by
\* JSON.stringify and reads as undefined either way, so it is left absent
forIndex(js) == [k \in IndexKeys \cap DOMAIN js |-> js[k]]

Max(a, b) == IF a >= b THEN a ELSE b

NameRank(n) == CASE n = "c1" -> 1 [] n = "c2" -> 2 [] n = "c3" -> 3 [] OTHER -> 4

RECURSIVE SortedIds(_)
\* the keys of a store directory in file-name order
SortedIds(S) ==
    IF S = {} THEN <<>>
    ELSE LET m == CHOOSE x \in S : \A y \in S : x <= y
         IN  <<m>> \o SortedIds(S \ {m})

RECURSIVE SortedNames(_)
\* center file names in order; the model's names c1 < c2 < zz are ordered by
\* their last character
SortedNames(S) ==
    IF S = {} THEN <<>>
    ELSE LET m == CHOOSE x \in S : \A y \in S : NameRank(x) <= NameRank(y)
         IN  <<m>> \o SortedNames(S \ {m})

RECURSIVE Rebuild(_, _, _)
\* the loop of loadOrCreateIndex over the event documents (lines 165-171)
Rebuild(idx, docs, ids) ==
    IF ids = <<>> THEN idx
    ELSE LET js == docs[Head(ids)]
         IN  Rebuild([events |-> Append(idx.events, forIndex(js)),
                      nextId |-> Max(idx.nextId, IF Has(js, "id") THEN js.id ELSE 0)],
                     docs, Tail(ids))

\* loadOrCreateIndex(): the index it leaves, from the snapshot file if there
\* is one, else rebuilt and one past the largest id seen
loadOrCreateIndex(docs, file) ==
    IF file # <<>> THEN file
    ELSE LET scanned == Rebuild([events |-> <<>>, nextId |-> 0], docs,
                                SortedIds(DOMAIN docs))
         IN  [scanned EXCEPT !.nextId = @ + 1]

\* index.events.findIndex(x => x.id == id), 0 when there is none
findIndex(events, id) ==
    IF \E i \in 1..Len(events) : events[i].id = id
    THEN CHOOSE i \in 1..Len(events) :
             events[i].id = id /\ \A j \in 1..(i - 1) : events[j].id # id
    ELSE 0

\* index.events.splice(idx, 1, forIndex(e)) with idx = length when not found
upsert(events, e) ==
    LET i == findIndex(events, e.id)
    IN  IF i = 0 THEN Append(events, forIndex(e))
        ELSE [events EXCEPT ![i] = forIndex(e)]

\* saveEventAsync(e, user) up to its first await: the cache entry and the
\* index entry are written, the snapshot text is built
saveEventAsync(W, p, e, ret) ==
    LET events == upsert(W.index.events, e)
        W1 == [W EXCEPT !.cache = Put(@, e.id, e), !.index.events = events]
    IN  Await(SetL(SetL(Push(W1, p, ret), p, "e", e), p, "snapshot", W1.index),
              p, "io_indexWrite", "sv_written")

\* await gitfs.events.setJsonFileAsync("current/" + eventFn(e.id), e, ...)
sv_written(W, p, val) == Await(W, p, "io_eventCommit", "sv_committed")

sv_committed(W, p, val) == Return(W, p, <<>>)

----------------------------------------------------------------------------
(* Augmenter.  tools.weekDay, monthPlusDay, fullDate, monthName, monthDay   *)
(* are not in src/; they are kept as uninterpreted renderings of the date. *)

weekDay(d) == <<"weekDay", d>>
monthPlusDay(d) == <<"monthPlusDay", d>>
monthDay(d) == <<"monthDay", d>>
fullDate(d) == <<"fullDate", d>>
monthName(d) == IF Len(d) >= 7 THEN <<d[6], d[7]>> ELSE <<>>

DateOf(ev, k) == IF Has(ev, k) THEN ev[k] ELSE <<>>

DerivedKeys == {"weekdayRange", "dateRange", "combinedRange"}

\* augmentEvent(ev), with centers the map cachedCenters() returns
augmentEvent(W, ev) ==
    LET obj == IF Has(ev, "center") THEN lookup(W.maps[W.cur], ev.center) ELSE 0
        r0 == IF obj # 0 THEN Copy(ev, "fullcity", W.heap[obj], "fullcity") ELSE ev
        s == DateOf(ev, "startDate")
        e == DateOf(ev, "endDate")
        ranged == Truthy(r0, "endDate")
        wd == IF ranged THEN weekDay(s) \o <<"-">> \o weekDay(e) ELSE weekDay(s)
        dr == IF ~ranged THEN monthPlusDay(s)
              ELSE IF monthName(s) # monthName(e)
                   THEN monthPlusDay(s) \o <<"-">> \o monthPlusDay(e)
                   ELSE monthPlusDay(s) \o <<"-">> \o monthDay(e)
        cr == IF ranged THEN fullDate(s) \o fullDate(e) ELSE fullDate(s)
    IN  Put(Put(Put(r0, "weekdayRange", wd), "dateRange", dr), "combinedRange", cr)

----------------------------------------------------------------------------
(* readEventAsync *)

readEventParsed(W, p, curr) ==
    getCenterAsync(SetL(W, p, "r", curr), p, Has(curr, "center"),
                   IF Has(curr, "center") THEN curr.center ELSE "", "re_center")

\* readEventAsync(id) up to its first await
readEventAsync(W, p, id, ret) ==
    LET W0 == Push(W, p, ret)
    IN  IF ~\E i \in 1..Len(W.index.events) : W.index.events[i].id = id
        THEN Return(W0, p, <<>>)
        ELSE IF Has(W.cache, id) THEN readEventParsed(W0, p, W.cache[id])
        ELSE Await(SetL(W0, p, "reId", id), p, "io_eventText", "re_text")

\* curr = eventsCache[id + ""] = text
re_text(W, p, text) ==
    readEventParsed([W EXCEPT !.cache = Put(@, Loc(W, p, "reId"), text)], p, text)

\* address and name are filled from the center when the address is missing;
\* reading c.address of a center that was not found throws
FillAddress(r, c) == Copy(Copy(r, "address", c, "address"), "name", c, "name")

\* lines 145-150 of readEventAsync
re_center(W, p, obj) ==
    LET r == Loc(W, p, "r")
    IN  IF ~Truthy(r, "address") /\ obj = 0 THEN Fail(W, p)
        ELSE LET r1 == IF ~Truthy(r, "address") THEN FillAddress(r, W.heap[obj]) ELSE r
                 W1 == cachedCenters(W)
             IN  Return(W1, p, augmentEvent(W1, r1))

----------------------------------------------------------------------------
(* POST /api/events *)

\* a handler that forgets to drop the fields
collapseNothing(e, center) == e

\* lines 527-532: address and name equal to the center's, and an endDate
\* equal to the startDate, are deleted before the save
collapse(e, center) ==
    LET e1 == IF SameProp(e, "address", center, "address") THEN Del(e, "address") ELSE e
        e2 == IF SameProp(e1, "name", center, "name") THEN Del(e1, "name") ELSE e1
    IN  IF SameProp(e2, "endDate", e2, "startDate") THEN Del(e2, "endDate") ELSE e2

\* a handler that never consumes the id
consumeIdNever(idx, isFresh) == idx

\* if (isFresh) index.nextId++
consumeId(idx, isFresh) ==
    IF isFresh THEN [idx EXCEPT !.nextId = @ + 1] ELSE idx

\* a handler that takes the id before it validates
postEventApplyEarly(W, p, currElt, isFresh) ==
    LET res == applyChanges(currElt, W.procs[p].arg)
        center == W.heap[Loc(W, p, "center")]
        W1 == [W EXCEPT !.index = consumeId(@, isFresh), !.procs[p].seen = center]
    IN  IF res.err # ""
        THEN Done([W1 EXCEPT !.refused = IF isFresh THEN @ \cup {currElt.id} ELSE @],
                  p, 412, [error |-> res.err])
        ELSE saveEventAsync([W1 EXCEPT !.issued = IF isFresh THEN Append(@, currElt.id) ELSE @],
                            p, collapse(res.curr, center), "pe_saved")

\* lines 521-535: validate, and on success consume the id, collapse and save
postEventApply(W, p, currElt, isFresh) ==
    LET res == applyChanges(currElt, W.procs[p].arg)
        center == W.heap[Loc(W, p, "center")]
        W1 == [W EXCEPT !.index = consumeId(@, isFresh),
                        !.issued = IF isFresh THEN Append(@, currElt.id) ELSE @,
                        !.procs[p].seen = center]
        e == collapse(res.curr, center)
        W0 == [W EXCEPT !.refused = IF isFresh THEN @ \cup {currElt.id} ELSE @]
    IN  IF res.err # "" THEN Done(W0, p, 412, [error |-> res.err])
        ELSE saveEventAsync(W1, p, e, "pe_saved")

\* the request body arrives (line 495): req.appuser is set in the model
postEvent(W, p, delta) ==
    getCenterAsync(W, p, Has(delta, "center"),
                   IF Has(delta, "center") THEN delta.center ELSE "", "pe_center")

pe_center(W, p, obj) ==
    IF obj = 0 THEN Done(W, p, 404, <<>>)
    ELSE Await(SetL(W, p, "center", obj), p, "io_auth", "pe_auth")

\* lines 505-519; delete delta.id has no effect on what is copied, id not
\* being one of the copied keys
pe_auth(W, p, ok) ==
    LET delta == W.procs[p].arg
    IN  IF ~ok THEN Done(W, p, 402, <<>>)
        ELSE IF Has(delta, "id") /\ delta.id > 0
             THEN readEventAsync(W, p, delta.id, "pe_read")
             ELSE postEventApply(W, p, [id |-> W.index.nextId], TRUE)

pe_read(W, p, currElt) ==
    IF currElt = <<>> THEN Done(W, p, 444, <<>>)
    ELSE postEventApply(W, p, currElt, FALSE)

pe_saved(W, p, val) == Done(W, p, 200, Loc(W, p, "e"))

(* GET /api/events/:id *)

getEvent(W, p, id) == readEventAsync(W, p, id, "ge_read")

ge_read(W, p, ev) ==
    IF ev = <<>> THEN Done(W, p, 404, <<>>) ELSE Done(W, p, 200, ev)

----------------------------------------------------------------------------
(* Query Engine *)

\* formatDate(new Date(Date.now() - 3 * 24 * 3600 * 1000)) on the day of the run
Today3 == <<"2", "0", "2", "4", "-", "0", "4", "-", "2", "8">>

\* the default of stop, "9999-99-99"
StopSentinel == <<"9", "9", "9", "9", "-", "9", "9", "-", "9", "9">>

\* query[k] || dflt
ParamOr(query, k, dflt) == IF Truthy(query, k) THEN query[k] ELSE dflt

\* the filter of lines 297-306; a comparison with undefined is false
passesFilter(e, query) ==
    LET startDate == ParamOr(query, "start", Today3)
        stopDate == ParamOr(query, "stop", StopSentinel)
        center == ParamOr(query, "center", "*")
        hasEnd == Truthy(e, "endDate") \/ Has(e, "startDate")
        end == IF Truthy(e, "endDate") THEN e.endDate ELSE e.startDate
    IN  /\ ~(hasEnd /\ StrLess(end, startDate))
        /\ ~(Has(e, "startDate") /\ StrLess(stopDate, e.startDate))
        /\ ~(center # "*" /\ ~(Has(e, "center") /\ e.center = center))

\* tools.strcmp (not in src/): -1, 0 or 1 by the string order
strcmp(a, b) == IF StrLess(a, b) THEN -1 ELSE IF StrLess(b, a) THEN 1 ELSE 0

\* the comparator of events.sort, as "a goes before b"
before(a, b) ==
    LET c == strcmp(DateOf(a, "startDate"), DateOf(b, "startDate"))
    IN  IF c # 0 THEN c < 0 ELSE a.id - b.id < 0

\* events.sort(comparator): the sort is stable, so an entry goes after the
\* entries the comparator puts before it and after the earlier entries it
\* ties with
sortEvents(seq) ==
    LET n == Len(seq)
        es == seq \o <<>>
        place == [i \in 1..n |->
                    1 + Cardinality({j \in 1..n :
                            \/ before(es[j], es[i])
                            \/ ~before(es[i], es[j]) /\ j < i})] \o <<>>
        at == [p \in 1..n |-> CHOOSE i \in 1..n : place[i] = p] \o <<>>
    IN  [p \in 1..n |-> es[at[p]]]

RECURSIVE digitsValue(_, _)
\* the value of the leading digits of s, after acc
digitsValue(s, acc) ==
    IF s # <<>> /\ Head(s) \in Digits
    THEN digitsValue(Tail(s), 10 * acc + DigitVal(Head(s)))
    ELSE acc

\* parseInt(query[k]): NaN for undefined and for a text without leading digits
parseInt(query, k) ==
    LET s == IF Has(query, k) THEN query[k] ELSE <<>>
        signed == s # <<>> /\ Head(s) \in {"-", "+"}
        body == IF signed THEN Tail(s) ELSE s
        v == digitsValue(body, 0)
    IN  IF body = <<>> \/ Head(body) \notin Digits THEN [nan |-> TRUE, val |-> 0]
        ELSE [nan |-> FALSE, val |-> IF signed /\ Head(s) = "-" THEN 0 - v ELSE v]

Abs(n) == IF n < 0 THEN 0 - n ELSE n
Min(a, b) == IF a <= b THEN a ELSE b

\* events.slice(from): a negative from counts from the end
sliceFrom(seq, from) ==
    LET start == IF from < 0 THEN Max(Len(seq) + from, 0) ELSE Min(from, Len(seq))
    IN  SubSeq(seq, start + 1, Len(seq))

DefaultCount == 100
MaxCount == 100

\* parseInt(query["skip"]) || 0
skipOf(query) ==
    LET n == parseInt(query, "skip") IN IF n.nan THEN 0 ELSE n.val

\* a count that is not clamped
countOfUnclamped(query) ==
    LET n == parseInt(query, "count")
    IN  Abs(IF n.nan \/ n.val = 0 THEN DefaultCount ELSE n.val)

\* Math.abs(parseInt(query["count"]) || 100), clamped to 100
countOf(query) ==
    LET n == parseInt(query, "count")
        c == Abs(IF n.nan \/ n.val = 0 THEN DefaultCount ELSE n.val)
    IN  IF c > MaxCount THEN MaxCount ELSE c

\* if (events.length > count) events = events.slice(0, count)
truncate(events, count) ==
    IF Len(events) > count THEN SubSeq(events, 1, count) ELSE events

\* lines 326-335 on the sorted list: totalCount, skip, truncate
pageOf(sorted, skip, count) ==
    [totalCount |-> Len(sorted),
     events |-> truncate(IF skip # 0 THEN sliceFrom(sorted, skip) ELSE sorted, count)]

\* lines 323-335 without the augmentation: sort, count, skip, truncate
queryPage(events, query) == pageOf(sortEvents(events), skipOf(query), countOf(query))

\* lines 313-321: with a country, only the entries whose center is in the
\* map cachedCenters() returns now, with that country, are kept
countryFilter(W, events, country) ==
    LET centers == W.maps[W.cur]
        Keep(e) == LET obj == IF Has(e, "center") THEN lookup(centers, e.center) ELSE 0
                   IN  obj # 0 /\ Has(W.heap[obj], "country")
                               /\ W.heap[obj].country = country
    IN  IF country # "*" THEN SelectSeq(events, Keep) ELSE events

\* line 335: return { totalCount, events: events.map(augmentEvent) }
queryAnswer(W, p, page) ==
    Done(W, p, 200,
         [totalCount |-> page.totalCount,
          events |-> [i \in 1..Len(page.events) |-> augmentEvent(W, page.events[i])]])

\* augmentEvent calls cachedCenters(), once per event of the page
queryAugment(W, p, page) ==
    queryAnswer(IF page.events # <<>> THEN cachedCenters(W) ELSE W, p, page)

\* lines 313-334, country being query["country"] || "*"
queryFilter(W, p, query, country) ==
    queryAugment(W, p, queryPage(countryFilter(W, Loc(W, p, "qEvents"), country), query))

\* the code of queryEventsAsync after its loop
queryFinish(W, p) ==
    LET query == W.procs[p].arg
        country == ParamOr(query, "country", "*")
    IN  queryFilter(IF country # "*" THEN cachedCenters(W) ELSE W, p, query, country)

\* for (let e of events) await getCenterAsync(e.center)
queryLoop(W, p) ==
    LET events == Loc(W, p, "qEvents")
        i == Loc(W, p, "qI")
    IN  IF i > Len(events) THEN queryFinish(W, p)
        ELSE getCenterAsync(W, p, Has(events[i], "center"),
                            IF Has(events[i], "center") THEN events[i].center ELSE "",
                            "q_center")

q_center(W, p, obj) == queryLoop(SetL(W, p, "qI", Loc(W, p, "qI") + 1), p)

\* queryEventsAsync(query) up to its first await
queryEventsAsync(W, p, query) ==
    LET Keep(e) == passesFilter(e, query)
    IN  queryLoop(SetL(SetL(W, p, "qEvents", SelectSeq(W.index.events, Keep)),
                       p, "qI", 1), p)

----------------------------------------------------------------------------
(* GET /api/centers/:id, GET /api/centers, POST /api/centers *)

getCenter(W, p, id) == getCenterAsync(W, p, TRUE, id, "gcr_done")

gcr_done(W, p, obj) ==
    IF obj = 0 THEN Done(W, p, 404, <<>>) ELSE Done(W, p, 200, W.heap[obj])

\* tools.values(centers) of the map the call captured
centerValues(W, m) == {W.heap[W.maps[m][id]] : id \in DOMAIN W.maps[m]}

\* the loop of getCentersAsync (lines 110-118)
gsLoop(W, p) ==
    LET files == Loc(W, p, "gsFiles")
        i == CHOOSE j \in 1..(Len(files) + 1) :
                 /\ j >= Loc(W, p, "gsI")
                 /\ \A k \in Loc(W, p, "gsI")..(j - 1) :
                        lookup(W.maps[Loc(W, p, "gsMap")], files[k]) # 0
                 /\ (j <= Len(files) =>
                        lookup(W.maps[Loc(W, p, "gsMap")], files[j]) = 0)
    IN  IF i > Len(files)
        THEN Done(W, p, 200, centerValues(W, Loc(W, p, "gsMap")))
        ELSE Await(SetL(SetL(W, p, "gsI", i), p, "path", files[i]),
                   p, "io_centerText", "gs_text")

\* getCentersAsync() up to its first await
getCentersAsync(W, p) ==
    LET W1 == cachedCenters(W)
    IN  IF ~W1.hasAll
        THEN Await(SetL(W1, p, "gsMap", W1.cur), p, "io_readdir", "gs_files")
        ELSE Done(W1, p, 200, centerValues(W1, W1.cur))

\* let files = await readdirAsync(dir); hasAllCenters = true
gs_files(W, p, files) ==
    gsLoop(SetL(SetL([W EXCEPT !.hasAll = TRUE], p, "gsFiles", files), p, "gsI", 1), p)

gs_text(W, p, str) == parseCenterAsync(W, p, str, "gs_parsed")

\* centers[m[1]] = await parseCenterAsync(str)
gs_parsed(W, p, c) ==
    LET obj == Len(W.heap) + 1
        W1 == [W EXCEPT !.heap = Append(@, c),
                        !.maps[Loc(W, p, "gsMap")] =
                            Put(@, Loc(W, p, "gsFiles")[Loc(W, p, "gsI")], obj)]
    IN  gsLoop(SetL(W1, p, "gsI", Loc(W, p, "gsI") + 1), p)

postCenter(W, p, delta) ==
    getCenterAsync(W, p, Has(delta, "id"),
                   IF Has(delta, "id") THEN delta.id ELSE "", "pc_center")

pc_center(W, p, obj) ==
    IF obj = 0 THEN Done(W, p, 404, <<>>)
    ELSE Await(SetL(W, p, "center", obj), p, "io_auth", "pc_auth")

\* lines 574-581: applyCenterChanges runs on the cached object itself
pc_auth(W, p, ok) ==
    LET obj == Loc(W, p, "center")
        res == applyCenterChanges(W.heap[obj], W.procs[p].arg)
        W1 == [W EXCEPT !.heap[obj] = res.curr]
    IN  IF ~ok THEN Done(W, p, 402, <<>>)
        ELSE IF res.err # "" THEN Done(W1, p, 412, [error |-> res.err])
        ELSE Await(SetL(W1, p, "ucId", W1.heap[obj].id), p, "io_poke", "pc_poked")

\* updateCenterAsync after pokeAsync: let c = await getCenterAsync(id)
pc_poked(W, p, val) == getCenterAsync(W, p, TRUE, Loc(W, p, "ucId"), "pc_center2")

\* f(c), then setJsonFileAsync("centers/" + c.id + ".json", c, ...): the
\* document is serialised when the call is made
pc_center2(W, p, c) ==
    IF c = 0 THEN Fail(W, p)
    ELSE LET res == applyCenterChanges(W.heap[c], W.procs[p].arg)
             W1 == [W EXCEPT !.heap[c] = res.curr]
         IN  Await(SetL(SetL(W1, p, "center", c), p, "cdoc", res.curr),
                   p, "io_centerCommit", "pc_committed")

pc_committed(W, p, val) == Done(W, p, 200, W.heap[Loc(W, p, "center")])

----------------------------------------------------------------------------
(* The code after each await *)

Run(W, p, label, val) ==
    CASE label = "gc_text" -> gc_text(W, p, val)
      [] label = "gc_parsed" -> gc_parsed(W, p, val)
      [] label = "parse_geo" -> parse_geo(W, p, val)
      [] label = "sv_written" -> sv_written(W, p, val)
      [] label = "sv_committed" -> sv_committed(W, p, val)
      [] label = "re_text" -> re_text(W, p, val)
      [] label = "re_center" -> re_center(W, p, val)
      [] label = "pe_center" -> pe_center(W, p, val)
      [] label = "pe_auth" -> pe_auth(W, p, val)
      [] label = "pe_read" -> pe_read(W, p, val)
      [] label = "pe_saved" -> pe_saved(W, p, val)
      [] label = "ge_read" -> ge_read(W, p, val)
      [] label = "q_center" -> q_center(W, p, val)
      [] label = "gcr_done" -> gcr_done(W, p, val)
      [] label = "gs_files" -> gs_files(W, p, val)
      [] label = "gs_text" -> gs_text(W, p, val)
      [] label = "gs_parsed" -> gs_parsed(W, p, val)
      [] label = "pc_center" -> pc_center(W, p, val)
      [] label = "pc_auth" -> pc_auth(W, p, val)
      [] label = "pc_poked" -> pc_poked(W, p, val)
      [] label = "pc_center2" -> pc_center2(W, p, val)
      [] label = "pc_committed" -> pc_committed(W, p, val)

----------------------------------------------------------------------------
(* The environment: the documents on disk at start-up and the requests.    *)

D1 == <<"2", "0", "2", "4", "-", "0", "5", "-", "0", "1">>
D2 == <<"2", "0", "2", "4", "-", "0", "5", "-", "0", "2">>
BadDate == <<"x", "x">>
T1 == <<"2", "0", ":", "0", "0">>

C1Doc == [id |-> "c1", name |-> "N1", address |-> "A1", country |-> "US",
          fullcity |-> "F1"]
C2Doc == [id |-> "c2", name |-> "N2", address |-> "A2", country |-> "PL"]
InitCenters == [c \in {"c1", "c2"} |-> IF c = "c1" THEN C1Doc ELSE C2Doc]

E1Doc == [id |-> 1, center |-> "c1", startDate |-> D1, title |-> "T1"]
E2Doc == [id |-> 2, center |-> "c2", startDate |-> D1, endDate |-> D2,
          title |-> "T2", address |-> "B2"]

\* the event documents and the snapshot file found at start-up
InitDisks ==
    { [docs |-> <<>>, file |-> <<>>],
      [docs |-> <<E1Doc, E2Doc>>, file |-> <<>>],
      [docs |-> <<E1Doc, E2Doc>>,
       file |-> [events |-> <<forIndex(E1Doc), forIndex(E2Doc)>>, nextId |-> 3]] }

\* bodies of POST /api/events: creates ...
NewPlain == [center |-> "c1", startDate |-> D1, title |-> "T", weekdayRange |-> "Mon"]
NewFull ==
    [id |-> 0, center |-> "c1", startDate |-> D1, endDate |-> D1, title |-> "T",
     name |-> "Hall", address |-> "A1", startTime |-> T1, description |-> "d"]
NewLongTitle == [center |-> "c1", startDate |-> D1, title |-> Long201]
\* ... and updates
Retitle == [id |-> 1, center |-> "c1", title |-> "T9"]
RetitleLong == [id |-> 1, center |-> "c1", title |-> Long201]
Recenter == [id |-> 1, center |-> "c2", title |-> "T9"]
RetitleUnknown == [id |-> 9, center |-> "c1", title |-> "T9"]
RetitleNoCenter == [id |-> 1, title |-> "T9"]

EventDeltas ==
    {NewPlain, NewFull, NewLongTitle, Retitle, RetitleLong, Recenter,
     RetitleUnknown, RetitleNoCenter}

EventIds == {1, 3}

Queries ==
    { [country |-> "US"], [start |-> D1], [center |-> "c2", stop |-> D1],
      [country |-> "PL", skip |-> <<"1">>, count |-> <<"-", "1">>] }

CenterIds == {"c1", "c2", "zz"}

\* bodies of POST /api/centers
CenterDeltas ==
    { [id |-> "c1", about |-> "hi", address |-> "A7"],
      [id |-> "c1", program |-> "P", about |-> Long4001],
      [id |-> "c2", name |-> Long201],
      [about |-> "hi"] }

\* what a pull brings into the working copy besides the notification
PullChanges == {"none", "address"}

\* the event documents after a pull: "title" is a commit made elsewhere that
\* renames event 1
externalEventChange(store, ch) ==
    IF ch = "title" /\ Has(store, 1)
    THEN [store EXCEPT ![1] = Put(@, "title", "TX")]
    ELSE store

externalChange(store, ch) ==
    IF ch = "address" /\ Has(store, "c1")
    THEN [store EXCEPT !["c1"] = Put(@, "address", "A9")]
    ELSE store

\* gmaps.parseAddressAsync(address).fullcity (not in src/)
parseAddress(c) == IF Has(c, "address") THEN "G:" \o c.address ELSE "G:"

\* at most this many requests are in flight at once
Slots == {1, 2}
MaxReq == 2
MaxPulls == 1

----------------------------------------------------------------------------
(* History: what the steps of one request have changed so far *)

\* what differs between the worlds A and B, as pairs of a name and the
\* event id concerned (0 where there is none); "cacheRead" is a cache entry
\* that was set to the document the store holds, "cache" any other change
\* of a cache entry
Diff(A, B) ==
    {<<t, 0>> : t \in
        {t \in {"nextId", "index", "evStore", "indexFile", "centerRec", "ctrStore"} :
            CASE t = "nextId" -> A.index.nextId # B.index.nextId
              [] t = "index" -> A.index.events # B.index.events
              [] t = "evStore" -> A.evStore # B.evStore
              [] t = "indexFile" -> A.indexFile # B.indexFile
              [] t = "centerRec" -> \E o \in 1..Len(A.heap) : B.heap[o] # A.heap[o]
              [] t = "ctrStore" -> A.ctrStore # B.ctrStore}}
    \cup
    {<<IF Has(B.cache, id) /\ Has(B.evStore, id) /\ B.cache[id] = B.evStore[id]
       THEN "cacheRead" ELSE "cache", id>> :
        id \in {x \in (DOMAIN A.cache) \cup (DOMAIN B.cache) :
                   ~Has(A.cache, x) \/ ~Has(B.cache, x) \/ A.cache[x] # B.cache[x]}}

Without(bag, r) == bag (-) SetToBag({r})

\* the code after the await on top of the stack runs with the resolved value
Resume(W, p) ==
    Run([W EXCEPT !.ret = <<>>, !.procs[p].stack = Tail(@)], p,
        Head(W.procs[p].stack), W.ret[1])

RECURSIVE Settle(_, _)
\* resolved promises are continued, without any other request running in
\* between, until the request waits for I/O or has responded
Settle(W, p) == IF W.ret # <<>> THEN Settle(Resume(W, p), p) ELSE W

\* the step of a request that leads from World(r) to W2; old is the bag of
\* the other requests in flight
Commit(old, r, W2) ==
    LET r2 == [W2.procs[1] EXCEPT !.touched = @ \cup Diff(World(r), W2)]
        done == r2.pc = "done"
    IN  /\ index' = W2.index
        /\ eventsCache' = W2.cache
        /\ hasAllCenters' = W2.hasAll
        /\ centersRef' = W2.cur
        /\ centerMaps' = W2.maps
        /\ heap' = W2.heap
        /\ evStore' = W2.evStore
        /\ ctrStore' = W2.ctrStore
        /\ indexFile' = W2.indexFile
        /\ issued' = W2.issued
        /\ refused' = W2.refused
        /\ procs' = IF done THEN old ELSE old (+) SetToBag({r2})
        /\ last' = IF done THEN r2 ELSE IdleProc
        /\ lastSave' =
             IF done /\ r2.op = "postEvent" /\ r2.status = 200 /\ old = EmptyBag
             THEN [id |-> r2.resp.id, delta |-> r2.arg, center |-> r2.seen]
             ELSE IF r.pc = "run" /\ r.op # "getEvent" THEN <<>>
             ELSE lastSave
        /\ UNCHANGED << nPull, fnIn, fnOut >>

\* a request arrives
NewProc(op, arg) == [IdleProc EXCEPT !.op = op, !.pc = "run", !.arg = arg]

Arrive(r, W2) ==
    /\ nReq < MaxReq
    /\ BagCardinality(procs) < Cardinality(Slots)
    /\ nReq' = nReq + 1
    /\ Commit(procs, r, Settle(W2, 1))

\* the I/O that request r waits for completes
Complete(r, io, W2) ==
    /\ r.pc = io
    /\ UNCHANGED nReq
    /\ Commit(Without(procs, r), r, Settle(W2, 1))

InFlight == BagToSet(procs)

----------------------------------------------------------------------------
(* Actions: the arrival of each kind of request, the completion of each    *)
(* kind of I/O, and the store's notifications                              *)

PostEvent(delta) ==
    LET r == NewProc("postEvent", delta) IN Arrive(r, postEvent(World(r), 1, delta))

GetEvent(id) ==
    LET r == NewProc("getEvent", id) IN Arrive(r, getEvent(World(r), 1, id))

QueryEvents(query) ==
    LET r == NewProc("query", query) IN Arrive(r, queryEventsAsync(World(r), 1, query))

GetCenter(id) ==
    LET r == NewProc("getCenter", id) IN Arrive(r, getCenter(World(r), 1, id))

GetCenters ==
    LET r == NewProc("getCenters", <<>>) IN Arrive(r, getCentersAsync(World(r), 1))

PostCenter(delta) ==
    LET r == NewProc("postCenter", delta) IN Arrive(r, postCenter(World(r), 1, delta))

\* auth.hasWritePermAsync answers
AuthReply(r, ok) == Complete(r, "io_auth", Return(World(r), 1, ok))

\* gitfs.events.getTextFileAsync("centers/<id>.json") or readAsync of the
\* same file answers; a missing file is an error
CenterTextRead(r) ==
    Complete(r, "io_centerText",
             IF Has(ctrStore, r.L.path)
             THEN Return(World(r), 1, ctrStore[r.L.path])
             ELSE Fail(World(r), 1))

\* gmaps.parseAddressAsync answers
GeocodeReply(r) ==
    Complete(r, "io_geocode", Return(World(r), 1, parseAddress(r.L.parsed)))

\* gitfs.events.getTextFileAsync("current/<id>.json") answers
EventTextRead(r) ==
    Complete(r, "io_eventText",
             IF Has(evStore, r.L.reId)
             THEN Return(World(r), 1, evStore[r.L.reId])
             ELSE Fail(World(r), 1))

\* writeAsync(index.json) completes
IndexWritten(r) ==
    Complete(r, "io_indexWrite",
             Return([World(r) EXCEPT !.indexFile = r.L.snapshot], 1, <<>>))

\* setJsonFileAsync("current/<id>.json") completes
EventCommitted(r) ==
    Complete(r, "io_eventCommit",
             Return([World(r) EXCEPT !.evStore = Put(@, r.L.e.id, r.L.e)], 1, <<>>))

\* gitfs.events.pokeAsync() completes
Poked(r) == Complete(r, "io_poke", Return(World(r), 1, <<>>))

\* readdirAsync(centers) answers, in file-name order
DirListed(r) ==
    Complete(r, "io_readdir", Return(World(r), 1, SortedNames(DOMAIN ctrStore)))

\* setJsonFileAsync("centers/<id>.json") completes
CenterCommitted(r) ==
    Complete(r, "io_centerCommit",
             Return([World(r) EXCEPT !.ctrStore = Put(@, r.L.cdoc.id, r.L.cdoc)],
                    1, <<>>))

\* the store pulled new history: the working copy changes and the handler,
\* if one is registered, runs with isPull = true
PullNotification(ch) ==
    /\ nPull < MaxPulls /\ nPull' = nPull + 1
    /\ LET W1 == [World(IdleProc) EXCEPT !.ctrStore = externalChange(@, ch),
                                         !.evStore = externalEventChange(@, ch)]
           W2 == IF centersRef # 0 THEN onUpdate(W1, TRUE) ELSE W1
       IN  /\ ctrStore' = W2.ctrStore
           /\ evStore' = W2.evStore
           /\ centersRef' = W2.cur
           /\ centerMaps' = W2.maps
           /\ hasAllCenters' = W2.hasAll
    /\ lastSave' = <<>>
    /\ last' = IdleProc
    /\ UNCHANGED << index, eventsCache, heap, indexFile, procs,
                    nReq, issued, refused, fnIn, fnOut >>

\* what last holds after a notification with isPull = false
Notified == [IdleProc EXCEPT !.op = "notified"]

\* a notification with isPull = false
OtherNotification ==
    /\ centersRef # 0
    /\ LET W2 == onUpdate(World(IdleProc), FALSE)
       IN  /\ centersRef' = W2.cur
           /\ centerMaps' = W2.maps
           /\ hasAllCenters' = W2.hasAll
    /\ last' = Notified
    /\ UNCHANGED << index, eventsCache, heap, evStore, ctrStore, indexFile, procs,
                    lastSave, nReq, nPull, issued, refused, fnIn, fnOut >>

\* the state after initRoutes: the index is loaded, the caches are empty
InitAt(d) ==
    /\ evStore = d.docs
    /\ index = loadOrCreateIndex(d.docs, d.file)
    /\ indexFile = loadOrCreateIndex(d.docs, d.file)
    /\ eventsCache = <<>>
    /\ hasAllCenters = FALSE
    /\ centersRef = 0
    /\ centerMaps = <<>>
    /\ heap = <<>>
    /\ ctrStore = InitCenters
    /\ procs = EmptyBag
    /\ last = IdleProc
    /\ lastSave = <<>>
    /\ nReq = 0
    /\ nPull = 0
    /\ issued = <<>>
    /\ refused = {}

InitMain == \E d \in InitDisks : InitAt(d)

Init == InitMain /\ fnIn = <<>> /\ fnOut = <<>>

Next ==
    \/ \E delta \in EventDeltas : PostEvent(delta)
    \/ \E id \in EventIds : GetEvent(id)
    \/ \E query \in Queries : QueryEvents(query)
    \/ \E id \in CenterIds : GetCenter(id)
    \/ GetCenters
    \/ \E delta \in CenterDeltas : PostCenter(delta)
    \/ \E r \in InFlight, ok \in BOOLEAN : AuthReply(r, ok)
    \/ \E r \in InFlight : CenterTextRead(r)
    \/ \E r \in InFlight : GeocodeReply(r)
    \/ \E r \in InFlight : EventTextRead(r)
    \/ \E r \in InFlight : IndexWritten(r)
    \/ \E r \in InFlight : EventCommitted(r)
    \/ \E r \in InFlight : Poked(r)
    \/ \E r \in InFlight : DirListed(r)
    \/ \E r \in InFlight : CenterCommitted(r)
    \/ \E ch \in PullChanges : PullNotification(ch)
    \/ OtherNotification

Spec == Init /\ [][Next]_vars



----------------------------------------------------------------------------
(* Event requests only: creates, updates and reads by id, interleaved at   *)
(* their awaits                                                            *)

NextEvents ==
    \/ \E delta \in EventDeltas : PostEvent(delta)
    \/ \E id \in EventIds : GetEvent(id)
    \/ \E r \in InFlight, ok \in BOOLEAN : AuthReply(r, ok)
    \/ \E r \in InFlight : CenterTextRead(r)
    \/ \E r \in InFlight : GeocodeReply(r)
    \/ \E r \in InFlight : EventTextRead(r)
    \/ \E r \in InFlight : IndexWritten(r)
    \/ \E r \in InFlight : EventCommitted(r)

SpecEvents == Init /\ [][NextEvents]_vars

IssuedIds == {issued[i] : i \in 1..Len(issued)}

\* the request that has just completed was a create: no id > 0 in its body
LastIsCreate ==
    last.op = "postEvent" /\ ~(Has(last.arg, "id") /\ last.arg.id > 0)

LastIsUpdate ==
    last.op = "postEvent" /\ Has(last.arg, "id") /\ last.arg.id > 0

NextIdAboveIndex ==
    /\ \A i \in 1..Len(index.events) : index.events[i].id < index.nextId
    /\ \A i, j \in 1..Len(issued) : i # j => issued[i] # issued[j]
    /\ (LastIsCreate /\ last.status = 200) =>
           last.resp.id \in IssuedIds /\ last.resp.id < index.nextId

NextIdStep ==
    /\ index'.nextId >= index.nextId
    /\ index'.nextId - index.nextId = Len(issued') - Len(issued)
    /\ Len(issued') - Len(issued) \in {0, 1}

\* C1: over every interleaving of creates and updates, nextId never
\* decreases, it is greater than every id in the index, every create that
\* passes validation raises it by exactly one (and nothing else raises it),
\* and no two creates are given the same id.
C1_NextId == [](NextIdAboveIndex) /\ [][NextIdStep]_vars

\* two creates have succeeded, with consecutive ids
C1_Witness ==
    /\ Len(issued) = 2
    /\ issued[2] = issued[1] + 1
    /\ LastIsCreate /\ last.status = 200 /\ last.resp.id = issued[2]
    /\ index.nextId = issued[2] + 1

StoredKeys == {"id"} \cup {EventKeys[j] : j \in 1..Len(EventKeys)}

\* C5: no event document in the external store or in the Event Cache has a
\* key outside id and the whitelisted fields (so none has weekdayRange,
\* dateRange or combinedRange), after creates and after updates.
C5_NoDerivedStored ==
    /\ \A id \in DOMAIN evStore : DOMAIN evStore[id] \subseteq StoredKeys
    /\ \A id \in DOMAIN eventsCache : DOMAIN eventsCache[id] \subseteq StoredKeys

\* the request that has just completed was refused by validation, or
\* named an id that is not in the index
LastRejected == last.op = "postEvent" /\ last.status \in {412, 444}

\* C7 as stated: a rejected create or update leaves nextId, the index
\* entries, the Event Cache and the stored event documents unchanged.
C7_AsStated == LastRejected => last.touched = {}

\* C7: a rejected create or update leaves nextId, the index entries, the
\* stored event documents, the snapshot file and every document already in
\* the Event Cache unchanged; the one change it can make is to put the
\* stored document of the event it names into the Event Cache, when it was
\* not there.  The id a failed create was given is not consumed: it is still
\* nextId, or a later successful create has received it.
C7_RejectedChangesNothing ==
    /\ LastRejected =>
          /\ LastIsCreate => last.touched = {}
          /\ LastIsUpdate => last.touched \subseteq {<<"cacheRead", last.arg.id>>}
    /\ \A id \in refused : id = index.nextId \/ id \in IssuedIds

\* a create and then an update were refused: the id of the create is still
\* free and the update has put the stored document in the cache
C7_Witness ==
    /\ LastIsUpdate /\ last.status = 412
    /\ last.touched = {<<"cacheRead", last.arg.id>>}
    /\ refused # {}
    /\ \A id \in refused : id = index.nextId

CenterOf(events, id) ==
    LET e == events[findIndex(events, id)]
    IN  IF Has(e, "center") THEN <<e.center>> ELSE <<>>

HasEntry(events, id) == findIndex(events, id) # 0

\* the update just completed named another center than its event's, or none
LastRecenters ==
    /\ LastIsUpdate
    /\ HasEntry(index.events, last.arg.id)
    /\ CenterOf(index.events, last.arg.id) #
           (IF Has(last.arg, "center") THEN <<last.arg.center>> ELSE <<>>)

CenterFixedStep ==
    \A i \in 1..Len(index.events) :
        /\ HasEntry(index'.events, index.events[i].id)
        /\ CenterOf(index'.events, index.events[i].id) =
               CenterOf(index.events, index.events[i].id)

\* C8 as stated, for the refused update: it changes nothing at all.
C8_AsStated ==
    LastRecenters => last.status \in {402, 404, 412} /\ last.touched = {}

\* C8: once the index has an entry for an id, the entry stays and its
\* center never changes, whatever creates and updates succeed or fail; an
\* update that names another center than its event's, or no center, is
\* refused and changes neither nextId, the index, the snapshot file nor the
\* stored documents; the one change it can make is to put the stored
\* document of its event into the Event Cache.
C8_CenterFixed ==
    /\ [][CenterFixedStep]_vars
    /\ [](LastRecenters =>
            /\ last.status \in {402, 404, 412}
            /\ last.touched \subseteq {<<"cacheRead", last.arg.id>>})

\* an update of event 1 to another center was refused
C8_Witness ==
    /\ LastRecenters
    /\ Has(last.arg, "center")
    /\ last.status = 412
    /\ last.resp = [error |-> "cannot change event center"]
    /\ CenterOf(index.events, 1) = <<"c1">>


\* the fields of the event the read returns that the claim speaks of
RoundTripKeys ==
    {"center", "startDate", "title", "description", "startTime", "name", "address"}

\* C4: a read of an event by id that follows its successful save, with no
\* other request in between, returns every whitelisted field of the saved
\* delta with the delta's value (a saved name that differs from the center's
\* included, even when the saved address equals the center's).
C4_RoundTrip ==
    (/\ last.op = "getEvent" /\ last.status = 200
     /\ lastSave # <<>> /\ lastSave.id = last.arg) =>
        \A k \in RoundTripKeys \cap DOMAIN lastSave.delta :
            Has(last.resp, k) /\ last.resp[k] = lastSave.delta[k]

----------------------------------------------------------------------------
(* Creates and updates with the store pulling new history in between *)

NextCollapse ==
    \/ \E delta \in {NewFull, Retitle} : PostEvent(delta)
    \/ \E r \in InFlight, ok \in BOOLEAN : AuthReply(r, ok)
    \/ \E r \in InFlight : CenterTextRead(r)
    \/ \E r \in InFlight : EventTextRead(r)
    \/ \E r \in InFlight : IndexWritten(r)
    \/ \E r \in InFlight : EventCommitted(r)
    \/ PullNotification("address")

SpecCollapse == Init /\ [][NextCollapse]_vars

\* the event document e repeats neither the address nor the name of the
\* center record c, nor its own startDate as endDate
Collapsed(e, c) ==
    /\ Has(e, "address") => ~(Has(c, "address") /\ e.address = c.address)
    /\ Has(e, "name") => ~(Has(c, "name") /\ e.name = c.name)
    /\ Has(e, "endDate") => ~(Has(e, "startDate") /\ e.endDate = e.startDate)

\* the center of event e as it is now: the record in the Center Directory,
\* or the stored document when the directory does not hold it
OwningCenter(e) ==
    LET obj == IF centersRef = 0 THEN 0 ELSE lookup(centerMaps[centersRef], e.center)
    IN  IF obj # 0 THEN heap[obj] ELSE ctrStore[e.center]

\* the last step committed the document of a successful create or update
LastCommitted ==
    /\ last.op = "postEvent" /\ last.status = 200
    /\ Has(evStore, last.resp.id) /\ evStore[last.resp.id] = last.resp

\* C6 as stated: the committed document repeats neither the address nor
\* the name its owning center has at the moment of the commit.
C6_AsStated ==
    (last.op = "postEvent" /\ last.status = 200) =>
        LastCommitted /\ Collapsed(last.resp, OwningCenter(last.resp))

\* C6: every event document committed by a successful create or update has
\* address absent if it equals the address, and name absent if it equals the
\* name, of the Center record the request resolved when it arrived, and
\* endDate absent if it equals startDate.
C6_Collapsed ==
    (last.op = "postEvent" /\ last.status = 200) =>
        LastCommitted /\ Collapsed(last.resp, last.seen)

\* a create that gave the center's address, another name and an endDate
\* equal to the startDate was committed without address and endDate
C6_Witness ==
    /\ LastCommitted
    /\ last.arg = NewFull
    /\ DOMAIN last.resp = (DOMAIN NewFull) \ {"address", "endDate"}
    /\ last.seen.address = NewFull.address


----------------------------------------------------------------------------
(* Center requests only *)

NextCenters ==
    \/ \E delta \in CenterDeltas : PostCenter(delta)
    \/ \E id \in CenterIds : GetCenter(id)
    \/ \E r \in InFlight, ok \in BOOLEAN : AuthReply(r, ok)
    \/ \E r \in InFlight : CenterTextRead(r)
    \/ \E r \in InFlight : GeocodeReply(r)
    \/ \E r \in InFlight : Poked(r)
    \/ \E r \in InFlight : CenterCommitted(r)

SpecCenters == Init /\ [][NextCenters]_vars

\* C3: a center update whose delta fails validation on any field leaves the
\* Center record held in the Center Directory and the stored center document
\* unchanged in every field.
C3_CenterUpdateAtomic ==
    (last.op = "postCenter" /\ last.status = 412) =>
        /\ <<"centerRec", 0>> \notin last.touched
        /\ <<"ctrStore", 0>> \notin last.touched

----------------------------------------------------------------------------
(* Queries, with the store pulling new history in between *)

NextQuery ==
    \/ \E query \in Queries : QueryEvents(query)
    \/ \E r \in InFlight : CenterTextRead(r)
    \/ \E r \in InFlight : GeocodeReply(r)
    \/ \E ch \in PullChanges : PullNotification(ch)

SpecQuery == Init /\ [][NextQuery]_vars

\* the index entries in the window of the query whose center has the country
MatchingEntries(query) ==
    {i \in 1..Len(index.events) :
        /\ passesFilter(index.events[i], query)
        /\ Has(index.events[i], "center")
        /\ Has(ctrStore, index.events[i].center)
        /\ Has(ctrStore[index.events[i].center], "country")
        /\ ctrStore[index.events[i].center].country = query.country}

\* C10: a query with a country keeps every entry in its window whose
\* center has that country and drops the others, also when a pull is
\* delivered while the query is suspended: the entries it counts are exactly
\* those.
C10_CountryKeeps ==
    (last.op = "query" /\ last.status = 200 /\ Truthy(last.arg, "country")) =>
        last.resp.totalCount = Cardinality(MatchingEntries(last.arg))

----------------------------------------------------------------------------
(* applyChanges on its own: every target and delta below is tried *)

\* the objects with the one property k, for each value, and the empty object
Opt(k, vals) == {<<>>} \cup {[x \in {k} |-> v] : v \in vals}

\* the properties of a and, where a has none, those of b
Merge(a, b) ==
    [x \in (DOMAIN a) \cup (DOMAIN b) |-> IF x \in DOMAIN a THEN a[x] ELSE b[x]]

BadTime == <<"2", "5", "p", "m">>

\* the records changed: a fresh skeleton and two stored events
ApplyTargets == {[id |-> 3], E1Doc, Merge([name |-> "Hall"], E2Doc)}

ApplyDeltas ==
    { Merge(a, Merge(b, Merge(c, Merge(d, Merge(e, Merge(f, Merge(g, Merge(h, i)))))))) :
        a \in Opt("center", {"c1", "c2"}),
        b \in Opt("startDate", {D2, BadDate, <<>>}),
        c \in Opt("endDate", {D2, BadDate}),
        d \in Opt("startTime", {T1, BadTime}),
        e \in Opt("title", {"T9", Long201}),
        f \in Opt("address", {"B9", Long201}),
        g \in Opt("name", {Long201}),
        h \in Opt("description", {Long4001}),
        i \in Opt("id", {7}) }

\* the state in which nothing has been asked of the server yet
InitIdle == InitAt([docs |-> <<>>, file |-> <<>>])

InitApply ==
    /\ InitIdle
    /\ fnIn \in [fn : {"applyChanges"}, curr : ApplyTargets, delta : ApplyDeltas]
    /\ fnOut = <<>>

\* let err = applyChanges(currElt, delta)
ApplyChangesCall ==
    /\ fnOut = <<>>
    /\ fnIn.fn = "applyChanges"
    /\ fnOut' = applyChanges(fnIn.curr, fnIn.delta)
    /\ UNCHANGED << index, eventsCache, hasAllCenters, centersRef, centerMaps,
                    heap, evStore, ctrStore, indexFile, procs, last, lastSave,
                    nReq, nPull, issued, refused, fnIn >>

NextApply == ApplyChangesCall

SpecApply == InitApply /\ [][NextApply]_vars

\* what the checks of applyChanges demand of a delta, read off the table of
\* field rules
DeltaAcceptable(curr, delta) ==
    /\ (Has(curr, "center") /\ curr.center # "") =>
           (Has(delta, "center") /\ delta.center = curr.center)
    /\ \A k \in {"startDate", "endDate"} :
           (Has(delta, k) /\ delta[k] # <<>>) => MatchesDate(delta[k])
    /\ (Has(delta, "startTime") /\ delta.startTime # <<>>) => MatchesTime(delta.startTime)
    /\ \A k \in {"title", "address", "name"} : Has(delta, k) => Len(delta[k]) <= 200
    /\ Has(delta, "description") => Len(delta.description) <= 4000

\* C2: when applyChanges returns a non-empty error the target record is as
\* it was in every field; the target differs from what it was only when every
\* validation passed, and then each whitelisted field of the delta has the
\* delta's value and every other field is as it was.
C2_ValidationAtomic ==
    fnOut # <<>> =>
        /\ fnOut.err # "" => fnOut.curr = fnIn.curr
        /\ fnOut.err = "" <=> DeltaAcceptable(fnIn.curr, fnIn.delta)
        /\ fnOut.err = "" =>
              /\ DOMAIN fnOut.curr =
                    (DOMAIN fnIn.curr) \cup
                    ((DOMAIN fnIn.delta) \cap {EventKeys[j] : j \in 1..Len(EventKeys)})
              /\ \A k \in DOMAIN fnOut.curr :
                    fnOut.curr[k] =
                        IF k \in DOMAIN fnIn.delta /\ k # "id" THEN fnIn.delta[k]
                        ELSE fnIn.curr[k]

\* a delta was refused whose fields, had they been copied, would have
\* changed the target
C2_Witness ==
    /\ fnOut # <<>>
    /\ fnOut.err = "description too long"
    /\ Has(fnIn.delta, "title") /\ Has(fnIn.curr, "title")
    /\ fnIn.delta.title # fnIn.curr.title
    /\ fnOut.curr.title = fnIn.curr.title


----------------------------------------------------------------------------
(* The pagination of queryEventsAsync on its own *)

\* the longest list of filtered events tried
MaxEvents == 102

PageLengths == {0, 1, 2, 3, 5, MaxCount + 1, MaxEvents}

\* an absent parameter is <<>>, a given one <<n>>
SkipValues == {<<>>} \cup {<<n>> : n \in {0 - 1, 0, 1, 2}}
CountValues ==
    {<<>>} \cup {<<n>> : n \in {0 - 150, 0 - 1, 0, 1, 2, MaxCount, MaxCount + 1, 150}}

DigitChar(d) == CHOOSE c \in Digits : DigitVal(c) = d

RECURSIVE Decimal(_)
\* the decimal digits of n >= 0
Decimal(n) ==
    IF n < 10 THEN <<DigitChar(n)>> ELSE Decimal(n \div 10) \o <<DigitChar(n % 10)>>

\* the text of the integer n in a query string
ToChars(n) == IF n < 0 THEN <<"-">> \o Decimal(0 - n) ELSE Decimal(n)

\* req.query for the given skip and count
PageQuery(skip, count) ==
    Merge(IF skip = <<>> THEN <<>> ELSE [skip |-> ToChars(skip[1])],
          IF count = <<>> THEN <<>> ELSE [count |-> ToChars(count[1])])

\* n filtered entries in index order: the ids ascend, the dates alternate
PageEvents(n) ==
    [i \in 1..n |-> [id |-> i, center |-> "c1", title |-> "T",
                     startDate |-> IF i % 2 = 1 THEN D2 ELSE D1]]

InitPage ==
    /\ InitIdle
    /\ fnIn \in [fn : {"queryPage"}, n : PageLengths, skip : SkipValues,
                 count : CountValues]
    /\ fnOut = <<>>

\* lines 323-335 run on the filtered list
QueryPageCall ==
    /\ fnOut = <<>>
    /\ fnIn.fn = "queryPage"
    /\ fnOut' = queryPage(PageEvents(fnIn.n), PageQuery(fnIn.skip, fnIn.count))
    /\ UNCHANGED << index, eventsCache, hasAllCenters, centersRef, centerMaps,
                    heap, evStore, ctrStore, indexFile, procs, last, lastSave,
                    nReq, nPull, issued, refused, fnIn >>

NextPage == QueryPageCall

SpecPage == InitPage /\ [][NextPage]_vars

\* the events of the page are distinct entries of the filtered list
PageOfList ==
    /\ \A i \in 1..Len(fnOut.events) : fnOut.events[i].id \in 1..fnIn.n
    /\ \A i, j \in 1..Len(fnOut.events) :
           i # j => fnOut.events[i].id # fnOut.events[j].id

\* C9 as stated: for every skip and count, zero and negative values
\* included, the query returns at most min(count, 100) events (at most 100
\* without a count) and totalCount is the number of filtered entries.
C9_AsStated ==
    fnOut # <<>> =>
        /\ Len(fnOut.events) <=
              (IF fnIn.count = <<>> THEN 100 ELSE Min(fnIn.count[1], 100))
        /\ fnOut.totalCount = fnIn.n

\* C9: for every skip and count the query returns at most min(|count|, 100)
\* events, and at most 100 when count is 0 or absent; they are entries of
\* the filtered list, and totalCount is the length of the filtered list
\* before skip and count are applied.
C9_PageSize ==
    fnOut # <<>> =>
        /\ Len(fnOut.events) <=
              (IF fnIn.count = <<>> \/ fnIn.count[1] = 0 THEN 100
               ELSE Min(Abs(fnIn.count[1]), 100))
        /\ PageOfList
        /\ fnOut.totalCount = fnIn.n

\* a count of 0 over more than 100 filtered events returned 100 of them
C9_Witness ==
    /\ fnOut # <<>>
    /\ fnIn.count = <<0>>
    /\ fnIn.skip = <<>>
    /\ fnIn.n > 100
    /\ Len(fnOut.events) = 100

\* a comes before b in the order by startDate, then id
Precedes(a, b) ==
    \/ StrLess(a.startDate, b.startDate)
    \/ a.startDate = b.startDate /\ a.id < b.id

\* the place of e in that order over the entries es, counted from 1
RankIn(es, e) == 1 + Cardinality({j \in 1..Len(es) : Precedes(es[j], e)})

\* the skip and the number of events asked for, as integers
SkipAsked == IF fnIn.skip = <<>> THEN 0 ELSE fnIn.skip[1]
CountAsked ==
    IF fnIn.count = <<>> \/ fnIn.count[1] = 0 THEN DefaultCount
    ELSE Min(Abs(fnIn.count[1]), MaxCount)

\* the page is the run of the order that starts after `from` entries
PageFrom(from) ==
    LET len == Max(0, Min(CountAsked, fnIn.n - from))
    IN  /\ Len(fnOut.events) = len
        /\ \A i \in 1..len : RankIn(PageEvents(fnIn.n), fnOut.events[i]) = from + i

\* C11: the events returned are in ascending order of startDate, equal
\* dates in ascending order of id, and the page is the elements of that
\* order from position skip on, up to count of them (a skip before the first
\* position starting at the first).
C11_PageFromSkip == fnOut # <<>> => PageFrom(Max(SkipAsked, 0))

\* the same with the start that events.slice(skip) gives a negative skip:
\* that many entries before the end of the order
C11_PageOfOrder ==
    fnOut # <<>> =>
        PageFrom(IF SkipAsked < 0 THEN Max(fnIn.n + SkipAsked, 0)
                 ELSE Min(SkipAsked, fnIn.n))

----------------------------------------------------------------------------
(* The geocoder failing *)

\* gmaps.parseAddressAsync rejects: the exception leaves parseCenterAsync
\* and every async function awaiting it, none of them catching it
GeocodeFails(r) == Complete(r, "io_geocode", Fail(World(r), 1))

\* an event of the center c2, whose document has no fullcity
NewAtC2 == [center |-> "c2", startDate |-> D1, title |-> "T"]

NextGeo ==
    \/ \E id \in {"c1", "c2"} : GetCenter(id)
    \/ GetCenters
    \/ \E id \in {2} : GetEvent(id)
    \/ \E delta \in {NewAtC2} : PostEvent(delta)
    \/ \E r \in InFlight, ok \in BOOLEAN : AuthReply(r, ok)
    \/ \E r \in InFlight : DirListed(r)
    \/ \E r \in InFlight : CenterTextRead(r)
    \/ \E r \in InFlight : GeocodeReply(r)
    \/ \E r \in InFlight : GeocodeFails(r)
    \/ \E r \in InFlight : EventTextRead(r)
    \/ \E r \in InFlight : IndexWritten(r)
    \/ \E r \in InFlight : EventCommitted(r)

SpecGeo == Init /\ [][NextGeo]_vars

\* C12: the geocoder failing does not fail a center lookup, a center
\* listing, an event read or an event write: each of them, asked about a
\* center and an event that exist, is answered and not ended by the error.
C12_GeocodeOptional ==
    last.op \in {"getCenter", "getCenters", "getEvent", "postEvent"} =>
        last.status # 500

----------------------------------------------------------------------------
(* The Center Directory: lookups, listings and the store's notifications *)

NextDir ==
    \/ \E id \in CenterIds : GetCenter(id)
    \/ GetCenters
    \/ \E r \in InFlight : DirListed(r)
    \/ \E r \in InFlight : CenterTextRead(r)
    \/ \E r \in InFlight : GeocodeReply(r)
    \/ \E ch \in PullChanges : PullNotification(ch)
    \/ OtherNotification

SpecDir == Init /\ [][NextDir]_vars

\* the map cachedCenters() would return now ({} before the first call)
CurrentMap == IF centersRef = 0 THEN <<>> ELSE centerMaps[centersRef]

\* a lookup answered 'not found' asked for a center the store does not have
NotFoundOnlyMissing ==
    (last.op = "getCenter" /\ last.status = 404) => ~Has(ctrStore, last.arg)

\* C13: whenever hasAllCenters is true every center document of the store
\* has an entry in the current Center Directory map, so that a lookup is
\* answered 'not found' only for a center the store does not have.
C13_FlagMeansAll ==
    /\ hasAllCenters => \A id \in DOMAIN ctrStore : Has(CurrentMap, id)
    /\ NotFoundOnlyMissing

\* the same with no request in flight
FlagMeansAllAtRest ==
    (procs = EmptyBag /\ hasAllCenters) =>
        \A id \in DOMAIN ctrStore : Has(CurrentMap, id)

\* C14: once a pull has been delivered and the requests that were in flight
\* have completed, a lookup of a center the store has is answered with the
\* center, never 'not found', and a listing contains every stored center.
\* (A lookup answered 'not found' has not waited for anything, so with no
\* request in flight it started after the others had completed.)
C14_FreshAfterPull ==
    (nPull >= 1 /\ procs = EmptyBag) =>
        /\ (last.op = "getCenter" /\ Has(ctrStore, last.arg)) => last.status = 200
        /\ last.op = "getCenters" =>
              \A id \in DOMAIN ctrStore : \E c \in last.resp : c.id = id

\* the request that arrives in this step: it has responded already, or it
\* is the one more request in flight
Arrived ==
    IF last' # IdleProc THEN last'
    ELSE CHOOSE r \in BagToSet(procs') : CopiesIn(r, procs') > CopiesIn(r, procs)

\* what a lookup does when it arrives, by the directory and the flag
LookupStep ==
    (nReq' = nReq + 1 /\ Arrived.op = "getCenter") =>
        IF Has(CurrentMap, Arrived.arg)
        THEN /\ Arrived.pc = "done" /\ Arrived.status = 200
             /\ Arrived.resp = heap[CurrentMap[Arrived.arg]]
             /\ procs' = procs
        ELSE IF hasAllCenters
        THEN Arrived.pc = "done" /\ Arrived.status = 404 /\ procs' = procs
        ELSE /\ Arrived.pc = "io_centerText" /\ Arrived.L.path = Arrived.arg
             /\ Has(ctrStore, Arrived.arg) => Arrived.L.gcMap = centersRef'

\* a lookup reads the store at most once, and only its own center
LookupReads ==
    \A r \in InFlight :
        (r.op = "getCenter" /\ r.pc = "io_centerText") => r.L.path = r.arg

LastLookupFound == last.op = "getCenter" /\ last.status = 200

\* C15 as stated: a lookup that has fetched its center from the store has
\* cached it under its id in the Center Directory.
C15_AsStated ==
    LastLookupFound =>
        Has(CurrentMap, last.arg) /\ heap[CurrentMap[last.arg]] = last.resp

\* C15: a lookup is answered from the Center Directory without a read of the
\* store when its id is there, answered 'not found' without a read when the
\* id is not there and hasAllCenters is true, and reads the store otherwise;
\* what it has fetched is cached under its id in the map that was the
\* directory when it started, which is the current one if no pull came.
C15_LookupReads ==
    /\ [][LookupStep]_vars
    /\ [](LookupReads)
    /\ [](LastLookupFound =>
            /\ \E m \in 1..Len(centerMaps) :
                   Has(centerMaps[m], last.arg) /\ heap[centerMaps[m][last.arg]] = last.resp
            /\ nPull = 0 => Has(CurrentMap, last.arg))

\* a lookup has fetched its center while a pull replaced the directory: the
\* center it returned is not in the current map
C15_Witness ==
    /\ LastLookupFound
    /\ nPull = 1
    /\ last.touched = {}
    /\ centersRef # 0 /\ ~Has(CurrentMap, last.arg)

\* a pull notification is delivered while the handler is registered
PullStep ==
    (nPull' = nPull + 1 /\ centersRef # 0) =>
        /\ centersRef' # 0 /\ centerMaps'[centersRef'] = <<>>
        /\ ~hasAllCenters'

\* a notification with isPull = false is delivered
OtherStep ==
    last' = Notified => UNCHANGED << centersRef, centerMaps, hasAllCenters >>

\* C16: once the handler is registered, a notification with isPull = true
\* leaves the Center Directory empty and hasAllCenters false in the state
\* right after it, whatever requests are in flight; a notification with
\* isPull = false changes neither.
C16_PullClears == [][PullStep /\ OtherStep]_vars

\* a pull has emptied a directory that held centers, with a request in
\* flight
C16_Witness ==
    /\ nPull = 1 /\ last = IdleProc /\ procs # EmptyBag
    /\ Len(centerMaps) = 2 /\ centerMaps[1] # <<>>
    /\ centersRef = 2 /\ CurrentMap = <<>>
    /\ ~hasAllCenters

----------------------------------------------------------------------------
(* Event reads and updates, with a pull that brings a changed event        *)
(* document                                                                *)

NextStale ==
    \/ \E id \in {1, 2} : GetEvent(id)
    \/ \E delta \in {Retitle} : PostEvent(delta)
    \/ \E r \in InFlight, ok \in BOOLEAN : AuthReply(r, ok)
    \/ \E r \in InFlight : CenterTextRead(r)
    \/ \E r \in InFlight : GeocodeReply(r)
    \/ \E r \in InFlight : EventTextRead(r)
    \/ \E r \in InFlight : IndexWritten(r)
    \/ \E r \in InFlight : EventCommitted(r)
    \/ \E ch \in {"title"} : PullNotification(ch)

SpecStale == Init /\ [][NextStale]_vars

\* the fields of a document that a read returns as they are
DocKeys == {"id", "center", "startDate", "endDate", "title", "startTime", "description"}

Served(resp, doc) ==
    \A k \in DocKeys \cap DOMAIN doc : Has(resp, k) /\ resp[k] = doc[k]

\* a pull changes neither the Event Cache nor the index
PullKeeps == nPull' = nPull + 1 => UNCHANGED << eventsCache, index >>

\* a read that finds its event in the Event Cache does not read the store:
\* it answers from the cached document, or waits for the center holding it
ReadServesCache ==
    (/\ nReq' = nReq + 1 /\ Arrived.op = "getEvent"
     /\ Has(eventsCache, Arrived.arg)
     /\ \E i \in 1..Len(index.events) : index.events[i].id = Arrived.arg) =>
        /\ Arrived.pc # "io_eventText"
        /\ Arrived.pc = "done" =>
              Arrived.status = 200 /\ Served(Arrived.resp, eventsCache[Arrived.arg])
        /\ Arrived.pc # "done" => Arrived.L.r = eventsCache[Arrived.arg]

\* an entry of the Event Cache changes only when a local save of that id
\* writes it
EntryKept ==
    \A id \in DOMAIN eventsCache :
        (Has(eventsCache', id) /\ eventsCache'[id] # eventsCache[id]) =>
            \E r \in BagToSet(procs') :
                /\ r.op = "postEvent" /\ r.pc = "io_indexWrite"
                /\ r.L.e.id = id /\ eventsCache'[id] = r.L.e

C17_PullKeeps == [][PullKeeps]_vars

C17_ReadServesCache == [][ReadServesCache]_vars

\* C17: a pull leaves the Event Cache, the index entries and nextId as they
\* are, and a document in the Event Cache is what reads of its event serve,
\* whatever the store holds, until a local save of that id overwrites the
\* entry.
C17_StaleUntilSaved == [][PullKeeps /\ ReadServesCache /\ EntryKept]_vars

----------------------------------------------------------------------------
(* Saves whose index snapshot write or store commit may fail               *)

\* writeAsync of index.json rejects: the exception leaves the handler
IndexWriteFails(r) == Complete(r, "io_indexWrite", Fail(World(r), 1))

\* setJsonFileAsync rejects: the exception leaves the handler
EventCommitFails(r) == Complete(r, "io_eventCommit", Fail(World(r), 1))

NextSave ==
    \/ \E delta \in {Retitle, NewPlain} : PostEvent(delta)
    \/ \E id \in {1} : GetEvent(id)
    \/ \E r \in InFlight, ok \in BOOLEAN : AuthReply(r, ok)
    \/ \E r \in InFlight : CenterTextRead(r)
    \/ \E r \in InFlight : EventTextRead(r)
    \/ \E r \in InFlight : IndexWritten(r)
    \/ \E r \in InFlight : IndexWriteFails(r)
    \/ \E r \in InFlight : EventCommitted(r)
    \/ \E r \in InFlight : EventCommitFails(r)

SpecSave == Init /\ [][NextSave]_vars

\* request r has written, other than by reading the store, a cache entry
WroteCache(r) == \E t \in r.touched : t[1] = "cache"

\* a save that has not committed its document yet
SaveUncommitted(r) ==
    r.op = "postEvent" /\ r.pc \in {"io_indexWrite", "io_eventCommit"}

\* a save that failed leaves the Event Cache as it found it
FailedSaveKeepsCache ==
    (last.op = "postEvent" /\ last.status = 500) => ~WroteCache(last)

\* C18: a save writes the Event Cache entry of its event only after the
\* store commit of the document has succeeded (index update, store commit,
\* cache update), so that a save whose snapshot write or commit fails leaves
\* the Event Cache holding what it held before.
C18_CacheAfterCommit ==
    /\ \A r \in InFlight : SaveUncommitted(r) => ~WroteCache(r)
    /\ FailedSaveKeepsCache

----------------------------------------------------------------------------
(* Successful creates and updates only                                     *)

\* a second update of event 1
RetitleAgain == [id |-> 1, center |-> "c1", title |-> "T8"]

NextSync ==
    \/ \E delta \in {NewPlain, Retitle, RetitleAgain} : PostEvent(delta)
    \/ \E r \in InFlight, ok \in {TRUE} : AuthReply(r, ok)
    \/ \E r \in InFlight : CenterTextRead(r)
    \/ \E r \in InFlight : EventTextRead(r)
    \/ \E r \in InFlight : IndexWritten(r)
    \/ \E r \in InFlight : EventCommitted(r)

SpecSync == Init /\ [][NextSync]_vars

\* the summaries a scan of the stored event documents derives
StoredSummaries == {forIndex(evStore[id]) : id \in DOMAIN evStore}

SummariesIn(idx) == {idx.events[i] : i \in 1..Len(idx.events)}

Quiescent == procs = EmptyBag

IndexInSync == SummariesIn(index) = StoredSummaries

SnapshotInSync == SummariesIn(indexFile) = StoredSummaries

CacheInSync ==
    \A id \in DOMAIN eventsCache :
        Has(evStore, id) /\ eventsCache[id] = evStore[id]

\* C19: whenever no request is in flight, after any interleaving of
\* successful creates and updates, the summaries of the in-memory index and
\* of the index.json snapshot are those a scan of the stored documents would
\* derive, and every Event Cache entry equals its stored document.
C19_QuiescentInSync ==
    Quiescent => IndexInSync /\ SnapshotInSync /\ CacheInSync

----------------------------------------------------------------------------
(* Reads of center documents between two pulls                             *)

\* the directory map that the load of request r captured; a pull replaces
\* the map, so loads holding the same map started between the same two pulls
ReadMap(r) == IF r.op = "getCenters" THEN r.L.gsMap ELSE r.L.gcMap

\* request r waits for the text of a center document
ReadsCenter(r) == r.pc = "io_centerText"

\* no other load of the same period reads the document that r reads, and
\* the document is not in the directory while r reads it
SoleRead(r) ==
    /\ CopiesIn(r, procs) = 1
    /\ \A r2 \in InFlight \ {r} :
          (ReadsCenter(r2) /\ r2.L.path = r.L.path) => ReadMap(r2) # ReadMap(r)
    /\ ~Has(centerMaps[ReadMap(r)], r.L.path)

\* C20: between two consecutive pulls every center document is read from
\* the store at most once, whatever getCenterAsync and getCentersAsync calls
\* run concurrently: a center that is cached, or that a single-record load
\* is fetching, is not fetched again by another load.
C20_ReadOnce == \A r \in InFlight : ReadsCenter(r) => SoleRead(r)

============================================================================
